---- MODULE Spec2Model ----
(***************************************************************************)
(* Model of the seven-layer-symphony cycle pipeline:                       *)
(*   IntentEngine      (src/src/intent_engine.rs)                          *)
(*   FlowerOfLife      (src/src/flower_synthesis.rs)                       *)
(*   TimeWeavingLoom   (src/src/time_weaving_loom.rs)                      *)
(*   PerfectMusician   (src/src/perfect_musician.rs)                       *)
(*   SpiralScore       (src/src/spiral_score.rs)                           *)
(*   GrandSynthesis    (src/src/flower_synthesis.rs)                       *)
(*                                                                         *)
(* Numbers.  The program computes in f32.  The model computes in fixed     *)
(* point: the f32 value v is the integer v * Unit, products and quotients  *)
(* are rounded to the nearest integer.  0.618 is 618, 0.8 is 800, 0.98 is  *)
(* 980.  NaN and the infinities are not represented.                       *)
(*                                                                         *)
(* Vectors.  [f32; 7] is a function on 1..7; index i of the model is index *)
(* i-1 of the source.                                                      *)
(***************************************************************************)
EXTENDS Integers, Sequences, FiniteSets, TLC

\* ------------------------------------------------------------------------
\* Arithmetic of f32 in fixed point
\* ------------------------------------------------------------------------

\* 1.0 of the program
Unit == 1000

Abs(x) == IF x < 0 THEN -x ELSE x

\* nearest integer to n / d, for d > 0
RoundDiv(n, d) == (2 * n + d) \div (2 * d)

\* a * b
Mul(a, b) == RoundDiv(a * b, Unit)

\* a / b, b /= 0
Div(a, b) == IF b > 0 THEN RoundDiv(a * Unit, b) ELSE -RoundDiv(a * Unit, -b)

\* n / k for an integer literal k (7.0, 2.0, len as f32)
DivInt(n, k) == IF n >= 0 THEN RoundDiv(n, k) ELSE -RoundDiv(-n, k)

\* a % m on f32: the remainder of the truncated division, with the sign of a
FMod(a, m) == IF a >= 0 THEN a % m ELSE -((-a) % m)

Min(a, b) == IF a <= b THEN a ELSE b

Max(a, b) == IF a >= b THEN a ELSE b

Idx7 == 1..7

Vec7(x) == [i \in Idx7 |-> x]

RECURSIVE SumSeq(_)
SumSeq(s) == IF Len(s) = 0 THEN 0 ELSE s[1] + SumSeq(Tail(s))

IsPrefix(s, t) == Len(s) <= Len(t) /\ SubSeq(t, 1, Len(s)) = s

\* 3.14159265.. and its multiples, for cos and sin
PiTrue == 3142
HalfPiTrue == 1571
TwoPiTrue == 6283

\* cos on the first quadrant, 0 <= y <= pi/2, by its Taylor polynomial
CosQ(y) ==
    LET y2 == Mul(y, y)
        y4 == Mul(y2, y2)
        y6 == Mul(y4, y2)
        y8 == Mul(y4, y4)
    IN  Unit - RoundDiv(y2, 2) + RoundDiv(y4, 24) - RoundDiv(y6, 720)
             + RoundDiv(y8, 40320)

\* f32::cos, x >= 0
Cos(x) ==
    LET r == x % TwoPiTrue
    IN  IF r <= HalfPiTrue THEN CosQ(r)
        ELSE IF r <= PiTrue THEN -CosQ(PiTrue - r)
        ELSE IF r <= PiTrue + HalfPiTrue THEN -CosQ(r - PiTrue)
        ELSE CosQ(TwoPiTrue - r)

\* f32::sin, x >= 0: sin x = cos (x - pi/2) = cos (x + 3 pi/2)
Sin(x) == Cos(x + PiTrue + HalfPiTrue)

\* ------------------------------------------------------------------------
\* Intent and IntentEngine (intent_engine.rs)
\* ------------------------------------------------------------------------

\* resonance: 0.618 of Intent::from_desire
GoldenResonance == 618

\* clarity: 0.5 of Intent::from_desire
MediumClarity == 500

\* variant of from_desire: the fields desire and clarity exchanged
from_desire_swapped(desire, direction) ==
    [desire |-> MediumClarity, clarity |-> desire,
     resonance |-> GoldenResonance, vector |-> direction]

\* Intent::from_desire
from_desire(desire, direction) ==
    [desire |-> desire, clarity |-> MediumClarity,
     resonance |-> GoldenResonance, vector |-> direction]

\* Intent::manifest: desire * clarity * resonance * receptivity, left to right
manifest(intent, universe_receptivity) ==
    Mul(Mul(Mul(intent.desire, intent.clarity), intent.resonance),
        universe_receptivity)

\* universe_state: [0.5; 7]
NeutralState == 500

\* receptivity: 0.618
GoldenReceptivity == 618

\* manifestation_threshold: 0.8
ManifestationThreshold == 800

\* variant of IntentEngine::new: the threshold 0.08
IntentEngine_new_low_threshold ==
    [universe_state |-> Vec7(NeutralState),
     receptivity |-> GoldenReceptivity,
     manifestation_threshold |-> ManifestationThreshold \div 10]

\* IntentEngine::new
IntentEngine_new ==
    [universe_state |-> Vec7(NeutralState),
     receptivity |-> GoldenReceptivity,
     manifestation_threshold |-> ManifestationThreshold]

\* the loop of IntentEngine::inspire: the state the universe shifts toward
inspired_state(self, intent) ==
    [i \in Idx7 |->
        LET ripple == Mul(intent.vector[i], intent.desire)
        IN  Mul(self.universe_state[i], Unit - intent.resonance)
              + Mul(ripple, intent.resonance)]

\* variant of threshold_reached: the comparison reversed
threshold_reached_reversed(manifestation_power, manifestation_threshold) ==
    manifestation_power < manifestation_threshold

\* variant of threshold_reached: the comparison not strict
threshold_reached_inclusive(manifestation_power, manifestation_threshold) ==
    manifestation_power >= manifestation_threshold

\* the condition of the commit in IntentEngine::inspire
threshold_reached(manifestation_power, manifestation_threshold) ==
    manifestation_power > manifestation_threshold

\* variant of inspire: returns self.universe_state as it is after the
\* conditional assignment, instead of inspired_state
inspire_returns_universe(self, intent) ==
    LET inspired == inspired_state(self, intent)
        manifestation_power == manifest(intent, self.receptivity)
        after == IF threshold_reached(manifestation_power,
                                      self.manifestation_threshold)
                 THEN [self EXCEPT !.universe_state = inspired]
                 ELSE self
    IN  [self |-> after, ret |-> after.universe_state]

\* IntentEngine::inspire: the engine after the call and the returned vector
inspire(self, intent) ==
    LET inspired == inspired_state(self, intent)
        manifestation_power == manifest(intent, self.receptivity)
    IN  [self |-> IF threshold_reached(manifestation_power,
                                       self.manifestation_threshold)
                  THEN [self EXCEPT !.universe_state = inspired]
                  ELSE self,
         ret |-> inspired]

\* the accumulation loop of collective_inspiration over intents[1..n]
RECURSIVE collective_sum(_, _, _)
collective_sum(self, intents, n) ==
    IF n = 0 THEN [collective |-> Vec7(0), total_weight |-> 0]
    ELSE LET acc == collective_sum(self, intents, n - 1)
             intent == intents[n]
             weight == manifest(intent, self.receptivity)
         IN  [collective |->
                 [i \in Idx7 |-> acc.collective[i] + Mul(intent.vector[i], weight)],
              total_weight |-> acc.total_weight + weight]

\* IntentEngine::collective_inspiration: the engine after the call and the
\* returned vector
collective_inspiration(self, intents) ==
    LET acc == collective_sum(self, intents, Len(intents))
    IN  [self |-> self,
         ret |-> IF acc.total_weight > 0
                 THEN [i \in Idx7 |-> Div(acc.collective[i], acc.total_weight)]
                 ELSE acc.collective]

\* ------------------------------------------------------------------------
\* FlowerOfLife (flower_synthesis.rs)
\* ------------------------------------------------------------------------

\* FlowerOfLife::seed
seed(center) ==
    [petals |-> << >>, center |-> center, radius |-> Unit,
     kohanist_level |-> 0, bloom_state |-> "Seed"]

\* variant of petal_harmony: the loop stopped before component 6
petal_harmony_six(petal, center) ==
    DivInt(SumSeq([i \in 1..6 |-> Unit - Abs(petal[i] - center[i])]), 7)

\* variant of petal_harmony: the difference taken without .abs()
petal_harmony_signed(petal, center) ==
    DivInt(SumSeq([i \in Idx7 |-> Unit - (petal[i] - center[i])]), 7)

\* variant of petal_harmony: the distance summed, without "1.0 -"
petal_harmony_distance(petal, center) ==
    DivInt(SumSeq([i \in Idx7 |-> Abs(petal[i] - center[i])]), 7)

\* the inner loop of update_kohanist: petal_harmony / 7.0
petal_harmony(petal, center) ==
    DivInt(SumSeq([i \in Idx7 |-> Unit - Abs(petal[i] - center[i])]), 7)

\* the outer loop of update_kohanist and the division by petals.len()
harmony_level(petals, center) ==
    DivInt(SumSeq([n \in 1..Len(petals) |-> petal_harmony(petals[n], center)]),
           Len(petals))

\* variant of bloom_state_match: the guards not strict
bloom_state_match_inclusive(k) ==
    IF k <= 300 THEN "Seed"
    ELSE IF k <= 600 THEN "Sprouting"
    ELSE IF k <= 900 THEN "Budding"
    ELSE IF k <= 980 THEN "Blooming"
    ELSE "FullBloom"

\* the match of update_kohanist: the first arm whose guard holds
bloom_state_match(k) ==
    IF k < 300 THEN "Seed"
    ELSE IF k < 600 THEN "Sprouting"
    ELSE IF k < 900 THEN "Budding"
    ELSE IF k < 980 THEN "Blooming"
    ELSE "FullBloom"

\* variant of update_kohanist: harmony not divided by the number of petals
update_kohanist_sum(self) ==
    IF Len(self.petals) = 0
    THEN [self EXCEPT !.kohanist_level = 0]
    ELSE LET level == harmony_level(self.petals, self.center) * Len(self.petals)
         IN  [self EXCEPT !.kohanist_level = level,
                          !.bloom_state = bloom_state_match(level)]

\* variant of update_kohanist: FullBloom, once reached, is kept
update_kohanist_sticky(self) ==
    IF Len(self.petals) = 0
    THEN [self EXCEPT !.kohanist_level = 0]
    ELSE LET level == harmony_level(self.petals, self.center)
         IN  [self EXCEPT !.kohanist_level = level,
                          !.bloom_state =
                              IF self.bloom_state = "FullBloom" THEN "FullBloom"
                              ELSE bloom_state_match(level)]

\* variant of update_kohanist: the match reads kohanist_level before it is
\* assigned
update_kohanist_stale(self) ==
    IF Len(self.petals) = 0
    THEN [self EXCEPT !.kohanist_level = 0]
    ELSE LET level == harmony_level(self.petals, self.center)
         IN  [self EXCEPT !.kohanist_level = level,
                          !.bloom_state = bloom_state_match(self.kohanist_level)]

\* FlowerOfLife::update_kohanist
update_kohanist(self) ==
    IF Len(self.petals) = 0
    THEN [self EXCEPT !.kohanist_level = 0]
    ELSE LET level == harmony_level(self.petals, self.center)
         IN  [self EXCEPT !.kohanist_level = level,
                          !.bloom_state = bloom_state_match(level)]

\* variant of add_petal: the history kept to its two newest petals
add_petal_capped(self, timeline) ==
    LET all == Append(self.petals, timeline)
        kept == IF Len(all) > 2 THEN SubSeq(all, Len(all) - 1, Len(all)) ELSE all
    IN  update_kohanist([self EXCEPT !.petals = kept])

\* variant of add_petal: the petal inserted at the front
add_petal_front(self, timeline) ==
    update_kohanist([self EXCEPT !.petals = <<timeline>> \o self.petals])

\* FlowerOfLife::add_petal
add_petal(self, timeline) ==
    update_kohanist([self EXCEPT !.petals = Append(self.petals, timeline)])

\* ------------------------------------------------------------------------
\* TimeWeavingLoom (time_weaving_loom.rs)
\* ------------------------------------------------------------------------

\* variant of TimeWeavingLoom::new: the orbit begun at radius 2.0
TimeWeavingLoom_new_far(present) ==
    [git |-> [history |-> << >>, commits |-> 0, branch |-> 0],
     mercurial |-> [potentials |-> << >>, revisions |-> 0, timeline |-> Unit],
     present_gravity |-> present,
     orbital_radius |-> 2 * Unit,
     orbital_phase |-> 0,
     weave_pattern |-> << >>]

\* TimeWeavingLoom::new
TimeWeavingLoom_new(present) ==
    [git |-> [history |-> << >>, commits |-> 0, branch |-> 0],
     mercurial |-> [potentials |-> << >>, revisions |-> 0, timeline |-> Unit],
     present_gravity |-> present,
     orbital_radius |-> Unit,
     orbital_phase |-> 0,
     weave_pattern |-> << >>]

\* the step of the orbital phase: 0.1
PhaseStep == 100

\* the modulus of the orbital phase: 2.0 * 3.14159
PhaseModulus == 6283

\* the loop of TimeWeavingLoom::weave
woven_vector(self, forward, backward) ==
    [i \in Idx7 |->
        LET warp == Mul(forward[i], Unit + Cos(self.orbital_phase))
            weft == Mul(backward[i], Unit + Sin(self.orbital_phase))
            mixed == DivInt(warp + weft, 2)
            pull == Div(Unit, self.orbital_radius)
        IN  Mul(mixed, Unit - pull) + Mul(self.present_gravity[i], pull)]

\* variant of weave: the pattern restarted with the woven vector
weave_replaces_pattern(self, forward, backward) ==
    LET woven == woven_vector(self, forward, backward)
    IN  [self |-> [self EXCEPT
                     !.weave_pattern = << woven >>,
                     !.orbital_phase =
                         FMod(self.orbital_phase + PhaseStep, PhaseModulus)],
         ret |-> woven]

\* variant of weave: the radius advanced together with the phase
weave_advances_radius(self, forward, backward) ==
    LET woven == woven_vector(self, forward, backward)
    IN  [self |-> [self EXCEPT
                     !.weave_pattern = Append(self.weave_pattern, woven),
                     !.orbital_radius = self.orbital_radius + PhaseStep,
                     !.orbital_phase =
                         FMod(self.orbital_phase + PhaseStep, PhaseModulus)],
         ret |-> woven]

\* variant of weave: the phase advanced without the modulo
weave_no_wrap(self, forward, backward) ==
    LET woven == woven_vector(self, forward, backward)
    IN  [self |-> [self EXCEPT
                     !.weave_pattern = Append(self.weave_pattern, woven),
                     !.orbital_phase = self.orbital_phase + PhaseStep],
         ret |-> woven]

\* TimeWeavingLoom::weave: the loom after the call and the returned vector
weave(self, forward, backward) ==
    LET woven == woven_vector(self, forward, backward)
    IN  [self |-> [self EXCEPT
                     !.weave_pattern = Append(self.weave_pattern, woven),
                     !.orbital_phase =
                         FMod(self.orbital_phase + PhaseStep, PhaseModulus)],
         ret |-> woven]

\* the floor of approach_present: 0.1
RadiusFloor == 100

\* the ceiling of retreat_from_present: 10.0
RadiusCeiling == 10000

\* the radius below which approach_present counts a commit: 0.5
CommitRadius == 500

\* the radius above which retreat_from_present counts a revision: 2.0
RevisionRadius == 2000

\* variant of approach_present: the radius tested before its update
approach_present_tests_old_radius(self, delta) ==
    LET radius == Max(self.orbital_radius - delta, RadiusFloor)
    IN  [self EXCEPT
           !.orbital_radius = radius,
           !.git.commits = IF self.orbital_radius < CommitRadius THEN @ + 1 ELSE @]

\* TimeWeavingLoom::approach_present
approach_present(self, delta) ==
    LET radius == Max(self.orbital_radius - delta, RadiusFloor)
    IN  [self EXCEPT
           !.orbital_radius = radius,
           !.git.commits = IF radius < CommitRadius THEN @ + 1 ELSE @]

\* TimeWeavingLoom::retreat_from_present
retreat_from_present(self, delta) ==
    LET radius == Min(self.orbital_radius + delta, RadiusCeiling)
    IN  [self EXCEPT
           !.orbital_radius = radius,
           !.mercurial.revisions = IF radius > RevisionRadius THEN @ + 1 ELSE @]

\* ------------------------------------------------------------------------
\* PerfectMusician (perfect_musician.rs)
\* ------------------------------------------------------------------------

\* improvisation_factor: 0.618
ImprovisationFactor == 618

\* reader_sensitivity: 0.5
ReaderSensitivity == 500

\* PerfectMusician::transcendent
transcendent(octaves) ==
    [soul_registry |-> << >>, higher_octaves |-> octaves,
     improvisation_factor |-> ImprovisationFactor,
     reader_sensitivity |-> ReaderSensitivity]

\* the golden ratio of interpret: 1.618034
GoldenRatio == 1618

\* the threshold on reader.intent in interpret: 0.5
BeautyThreshold == 500

\* variant of seeks_beauty: the threshold included
seeks_beauty_inclusive(intent) == intent >= BeautyThreshold

\* the branch of interpret on reader.intent
seeks_beauty(intent) == intent > BeautyThreshold

\* variant of base_interpretation: the sum divided by the length of the
\* 7-vector
base_interpretation_mean7(code_hint) ==
    LET meta == DivInt(SumSeq(code_hint), 7)
    IN  [i \in Idx7 |-> IF i <= 5 THEN code_hint[i]
                        ELSE IF i = 6 THEN meta ELSE Unit - meta]

\* the first part of interpret: the 5-vector as a 7-vector
base_interpretation(code_hint) ==
    LET meta == DivInt(SumSeq(code_hint), 5)
    IN  [i \in Idx7 |-> IF i <= 5 THEN code_hint[i]
                        ELSE IF i = 6 THEN meta ELSE Unit - meta]

\* component i of personalized in interpret before the branch on
\* reader.intent: the blend with the soul of the reader, times understanding
understood(self, base, reader, i) ==
    Mul(Mul(base[i], Unit - self.reader_sensitivity)
          + Mul(reader.soul[i], self.reader_sensitivity),
        reader.understanding)

\* the beauty branch of interpret: (personalized * 1.618034) % 1.0
harmonize(x) == FMod(Mul(x, GoldenRatio), Unit)

\* the truth branch of interpret: personalized.min(1.0)
preserve(x) == Min(x, Unit)

\* PerfectMusician::interpret
interpret(self, code_hint, reader) ==
    [i \in Idx7 |->
        IF seeks_beauty(reader.intent)
        THEN harmonize(understood(self, base_interpretation(code_hint), reader, i))
        ELSE preserve(understood(self, base_interpretation(code_hint), reader, i))]

\* clarity of code_to_intent (intent_engine.rs): 0.7
CodeClarity == 700

\* resonance of code_to_intent (intent_engine.rs): 0.5
CodeResonance == 500

\* code_to_intent (intent_engine.rs)
code_to_intent(code_phash, programmer_desire) ==
    [desire |-> programmer_desire, clarity |-> CodeClarity,
     resonance |-> CodeResonance, vector |-> base_interpretation(code_phash)]

\* ------------------------------------------------------------------------
\* SpiralScore (spiral_score.rs)
\* ------------------------------------------------------------------------

\* the four glyphs of SpiralScore::quartet, frequencies as integers of Hz
quartet_musicians ==
    << [symbol |-> 127744, frequency |-> 432, harmonics |-> Vec7(Unit), intent |-> Unit],
       [symbol |-> 128171, frequency |-> 528, harmonics |-> Vec7(Unit), intent |-> Unit],
       [symbol |-> 128302, frequency |-> 639, harmonics |-> Vec7(Unit), intent |-> Unit],
       [symbol |-> 10084,  frequency |-> 432, harmonics |-> Vec7(Unit), intent |-> Unit] >>

\* future_shadow: 0.618
FutureShadow == 618

\* SpiralScore::quartet
quartet ==
    [musicians |-> quartet_musicians, notes |-> << >>,
     future_shadow |-> FutureShadow]

\* SpiralScore::add_note, musician_idx counted from 0
add_note(self, musician_idx, time, amplitude) ==
    IF musician_idx < 4
    THEN [self EXCEPT !.notes =
             Append(self.notes,
                    [time |-> time, glyph |-> self.musicians[musician_idx + 1],
                     amplitude |-> amplitude, phase |-> 0])]
    ELSE self

\* ------------------------------------------------------------------------
\* GrandSynthesis (flower_synthesis.rs)
\* ------------------------------------------------------------------------

\* the argument of PerfectMusician::transcendent in from_now
Octaves == 7

\* variant of from_now: the flower seeded with the neutral vector
from_now_neutral_flower(present) ==
    [flower |-> seed(Vec7(NeutralState)),
     loom |-> TimeWeavingLoom_new(present),
     musician |-> transcendent(Octaves),
     intent_engine |-> IntentEngine_new,
     spiral_score |-> quartet]

\* GrandSynthesis::from_now
from_now(present) ==
    [flower |-> seed(present),
     loom |-> TimeWeavingLoom_new(present),
     musician |-> transcendent(Octaves),
     intent_engine |-> IntentEngine_new,
     spiral_score |-> quartet]

\* git_thread of synthesize_cycle
git_thread == <<800, 700, 600, 500, 400, 300, 200>>

\* merc_thread of synthesize_cycle
merc_thread == <<200, 300, 400, 500, 600, 700, 800>>

\* reader.frequency of synthesize_cycle, in Hz
ReaderFrequency == 432

\* reader.intent of synthesize_cycle: 0.618
ReaderIntent == 618

\* step 3 of synthesize_cycle, given the result w of weave and the vector
\* interpreted: the intent built from the harmony and the call of inspire
cycle_manifest(self, w, interpreted) ==
    LET intent == from_desire(self.flower.kohanist_level, interpreted)
        m == inspire(self.intent_engine, intent)
    IN  [woven |-> w.ret, interpreted |-> interpreted, intent |-> intent,
         manifested |-> m.ret, loom |-> w.self, intent_engine |-> m.self]

\* step 2 of synthesize_cycle, given the result w of weave: the reader and
\* the call of interpret
cycle_interpret(self, w) ==
    LET woven == w.ret
        reader == [soul |-> woven, frequency |-> ReaderFrequency,
                   understanding |-> self.flower.kohanist_level,
                   intent |-> ReaderIntent]
        code_hint == [i \in 1..5 |-> woven[i]]
    IN  cycle_manifest(self, w, interpret(self.musician, code_hint, reader))

\* steps 1 to 3 of synthesize_cycle: its local variables woven, interpreted,
\* intent and manifested, and the loom and the engine after their calls
cycle_locals(self) ==
    cycle_interpret(self, weave(self.loom, git_thread, merc_thread))

\* variant of cycle_result: the note made before the petal is added
cycle_result_note_first(self, l) ==
    LET flower == add_petal(self.flower, l.manifested)
        time == [radius |-> l.loom.orbital_radius,
                 angle |-> l.loom.orbital_phase,
                 layer |-> Len(self.flower.petals) % 4]
    IN  [self |-> [flower |-> flower,
                   loom |-> l.loom,
                   musician |-> self.musician,
                   intent_engine |-> l.intent_engine,
                   spiral_score |->
                       add_note(self.spiral_score, 0, time,
                                self.flower.kohanist_level)],
         ret |-> l.manifested,
         locals |-> [woven |-> l.woven, interpreted |-> l.interpreted,
                     intent |-> l.intent, manifested |-> l.manifested]]

\* variant of cycle_result: the universe_state of the engine returned
\* instead of manifested
cycle_result_returns_universe(self, l) ==
    LET flower == add_petal(self.flower, l.manifested)
        time == [radius |-> l.loom.orbital_radius,
                 angle |-> l.loom.orbital_phase,
                 layer |-> Len(flower.petals) % 4]
    IN  [self |-> [flower |-> flower,
                   loom |-> l.loom,
                   musician |-> self.musician,
                   intent_engine |-> l.intent_engine,
                   spiral_score |->
                       add_note(self.spiral_score, 0, time, flower.kohanist_level)],
         ret |-> l.intent_engine.universe_state,
         locals |-> [woven |-> l.woven, interpreted |-> l.interpreted,
                     intent |-> l.intent, manifested |-> l.manifested]]

\* steps 4 and 5 of synthesize_cycle, given the local variables l of steps 1
\* to 3: the synthesis after the call, the returned vector and the locals
cycle_result(self, l) ==
    LET flower == add_petal(self.flower, l.manifested)
        time == [radius |-> l.loom.orbital_radius,
                 angle |-> l.loom.orbital_phase,
                 layer |-> Len(flower.petals) % 4]
    IN  [self |-> [flower |-> flower,
                   loom |-> l.loom,
                   musician |-> self.musician,
                   intent_engine |-> l.intent_engine,
                   spiral_score |->
                       add_note(self.spiral_score, 0, time, flower.kohanist_level)],
         ret |-> l.manifested,
         locals |-> [woven |-> l.woven, interpreted |-> l.interpreted,
                     intent |-> l.intent, manifested |-> l.manifested]]

\* GrandSynthesis::synthesize_cycle
synthesize_cycle(self) == cycle_result(self, cycle_locals(self))

\* variant of has_transcended: Blooming matched as well
has_transcended_blooming(self) ==
    self.flower.bloom_state \in {"Blooming", "FullBloom"}

\* GrandSynthesis::has_transcended
has_transcended(self) == self.flower.bloom_state = "FullBloom"

\* ------------------------------------------------------------------------
\* State
\* ------------------------------------------------------------------------

VARIABLES
    engines,    \* the IntentEngine objects of the engine scenario
    call,       \* per engine, the last call made on it: operation, argument,
                \* universe_state before the call, returned value
    flower,     \* the FlowerOfLife of the flower scenario
    synth,      \* the GrandSynthesis objects
    cycles,     \* per GrandSynthesis, the number of synthesize_cycle calls made
    returned,   \* per GrandSynthesis, the value its last synthesize_cycle returned
    given,      \* per GrandSynthesis, the present given to from_now
    locals,     \* per GrandSynthesis, the local variables of its last
                \* synthesize_cycle: woven, interpreted, intent, manifested
    loomcall,   \* the last call made on the loom of GrandSynthesis 1 in the
                \* orbit scenario: operation, arguments, loom before, returned value
    played      \* the last call of the musician scenario: operation, arguments,
                \* the promoted hint, returned value

vars ==
    <<engines, call, flower, synth, cycles, returned, given, locals, loomcall,
      played>>

\* ------------------------------------------------------------------------
\* Scenario 1: one IntentEngine, called with intents (SpecEngine)
\* Scenario 2: two IntentEngines, each called with intents (SpecTwins)
\* ------------------------------------------------------------------------

EngineIds == {1, 2}

\* calls made on one engine in scenario 1
MaxCalls == 3

\* calls made on each engine in scenario 2
MaxTwinCalls == 2

\* the engines a caller builds: IntentEngine::new(), and the struct with its
\* public fields receptivity and manifestation_threshold set otherwise
Receptivities == {GoldenReceptivity, Unit}

Thresholds == {ManifestationThreshold, 500}

EngineConfigs ==
    {[IntentEngine_new EXCEPT !.receptivity = r, !.manifestation_threshold = t] :
        r \in Receptivities, t \in Thresholds}

\* desire, clarity, resonance of the intents given to the engines
IntentScalars ==
    { <<Unit, Unit, Unit>>,       \* power = receptivity
      <<Unit, Unit, 800>>,        \* power = 0.8 * receptivity
      <<500, 500, 500>>,          \* power = 0.125 * receptivity
      <<Unit, MediumClarity, GoldenResonance>> }   \* from_desire(1.0, _)

Directions == { Vec7(Unit), git_thread }

Intents ==
    {[desire |-> t[1], clarity |-> t[2], resonance |-> t[3], vector |-> d] :
        t \in IntentScalars, d \in Directions}

TwinIntents == {i \in Intents : i.vector = git_thread /\ i.desire = Unit}

IntentLists ==
    LET a == [desire |-> Unit, clarity |-> Unit, resonance |-> Unit,
              vector |-> git_thread]
        b == [desire |-> 500, clarity |-> 500, resonance |-> 500,
              vector |-> Vec7(Unit)]
        z == [desire |-> 0, clarity |-> Unit, resonance |-> Unit,
              vector |-> merc_thread]
    IN  { << >>, <<a>>, <<a, b>>, <<z>>, <<b, z, a>> }

NoCall == [op |-> "none", n |-> 0]

IdleEngines ==
    /\ engines = [e \in EngineIds |-> IntentEngine_new]
    /\ call = [e \in EngineIds |-> NoCall]

IdleFlower == flower = seed(Vec7(NeutralState))

NoLoomCall == [op |-> "none", n |-> 0]

NoPlay == [op |-> "none", n |-> 0]

IdleMusician == played = NoPlay

IdleSynth ==
    /\ synth = [s \in {1, 2} |-> from_now(Vec7(NeutralState))]
    /\ cycles = [s \in {1, 2} |-> 0]
    /\ returned = [s \in {1, 2} |-> << >>]
    /\ given = [s \in {1, 2} |-> Vec7(NeutralState)]
    /\ locals = [s \in {1, 2} |-> << >>]
    /\ loomcall = NoLoomCall

\* engine.inspire(&intent)
Inspire(e, intent) ==
    LET r == inspire(engines[e], intent)
    IN  /\ engines' = [engines EXCEPT ![e] = r.self]
        /\ call' = [call EXCEPT ![e] =
                      [op |-> "inspire", n |-> call[e].n + 1, intent |-> intent,
                       before |-> engines[e].universe_state, ret |-> r.ret]]
        /\ UNCHANGED <<flower, synth, cycles, returned, given, locals, loomcall, played>>

\* engine.collective_inspiration(&intents)
CollectiveInspiration(e, intents) ==
    LET r == collective_inspiration(engines[e], intents)
    IN  /\ engines' = [engines EXCEPT ![e] = r.self]
        /\ call' = [call EXCEPT ![e] =
                      [op |-> "collective_inspiration", n |-> call[e].n + 1,
                       intents |-> intents,
                       before |-> engines[e].universe_state, ret |-> r.ret]]
        /\ UNCHANGED <<flower, synth, cycles, returned, given, locals, loomcall, played>>

\* intent.manifest(engine.receptivity)
Manifest(e, intent) ==
    /\ call' = [call EXCEPT ![e] =
                  [op |-> "manifest", n |-> call[e].n + 1, intent |-> intent,
                   before |-> engines[e].universe_state,
                   ret |-> manifest(intent, engines[e].receptivity)]]
    /\ UNCHANGED <<engines, flower, synth, cycles, returned, given, locals, loomcall, played>>

InitEngine ==
    /\ \E c \in EngineConfigs : engines = [e \in EngineIds |-> c]
    /\ call = [e \in EngineIds |-> NoCall]
    /\ IdleFlower
    /\ IdleMusician
    /\ IdleSynth

NextEngine ==
    \/ \E intent \in Intents :
          call[1].n < MaxCalls /\ Inspire(1, intent)
    \/ \E intents \in IntentLists :
          call[1].n < MaxCalls /\ CollectiveInspiration(1, intents)
    \/ \E intent \in Intents :
          call[1].n < MaxCalls /\ Manifest(1, intent)

SpecEngine == InitEngine /\ [][NextEngine]_vars

InitTwins ==
    /\ engines \in [EngineIds -> EngineConfigs]
    /\ call = [e \in EngineIds |-> NoCall]
    /\ IdleFlower
    /\ IdleMusician
    /\ IdleSynth

NextTwins ==
    \E e \in EngineIds :
        /\ call[e].n < MaxTwinCalls
        /\ \E intent \in TwinIntents : Inspire(e, intent)

SpecTwins == InitTwins /\ [][NextTwins]_vars

\* ------------------------------------------------------------------------
\* Properties of IntentEngine
\* ------------------------------------------------------------------------

\* the power of the last inspire call on engine e
PowerOfCall(e) == manifest(call[e].intent, engines[e].receptivity)

\* C1: when the last call on the engine is an inspire whose power
\* desire*clarity*resonance*receptivity is strictly greater than
\* manifestation_threshold, universe_state after the call is the vector the
\* call returned.
C1_CommitAboveThreshold ==
    ( /\ call[1].op = "inspire"
      /\ PowerOfCall(1) > engines[1].manifestation_threshold )
    => engines[1].universe_state = call[1].ret

\* C1 happens: an inspire above the threshold replaced universe_state by a
\* candidate that differs from the state before the call.
C1_Witness ==
    /\ call[1].op = "inspire"
    /\ PowerOfCall(1) > engines[1].manifestation_threshold
    /\ engines[1].universe_state = call[1].ret
    /\ call[1].ret # call[1].before

\* C2: a step changes universe_state only if it is an inspire whose power is
\* strictly greater than the threshold; an inspire with power <= threshold,
\* manifest and collective_inspiration leave it as it was.
C2_AmbientChangesOnlyByCommit ==
    [][\A e \in EngineIds :
          engines'[e].universe_state # engines[e].universe_state
          => /\ call'[e].op = "inspire"
             /\ manifest(call'[e].intent, engines[e].receptivity)
                  > engines[e].manifestation_threshold]_vars

\* C2 happens: an inspire whose power equals the threshold exactly returned a
\* candidate that differs from universe_state, and universe_state is what it
\* was before the call.
C2_Witness ==
    /\ call[1].op = "inspire"
    /\ PowerOfCall(1) = engines[1].manifestation_threshold
    /\ call[1].ret # call[1].before
    /\ engines[1].universe_state = call[1].before

\* C3: two engines whose last call is an inspire with the same intent on the
\* same universe_state got the same vector back, whatever their receptivity
\* and threshold.
C3_ReturnIndependentOfCommit ==
    \A e1, e2 \in EngineIds :
        ( /\ call[e1].op = "inspire"
          /\ call[e2].op = "inspire"
          /\ call[e1].before = call[e2].before
          /\ call[e1].intent = call[e2].intent )
        => call[e1].ret = call[e2].ret

\* C3 happens: the same intent on the same universe_state, one engine
\* committed and the other did not.
C3_Witness ==
    \E e1, e2 \in EngineIds :
        /\ call[e1].op = "inspire"
        /\ call[e2].op = "inspire"
        /\ call[e1].before = call[e2].before
        /\ call[e1].intent = call[e2].intent
        /\ engines[e1].universe_state = call[e1].ret
        /\ engines[e2].universe_state = call[e2].before
        /\ call[e1].ret # call[e1].before

\* ------------------------------------------------------------------------
\* Scenario 3: one FlowerOfLife, petals added to it (SpecFlower)
\* ------------------------------------------------------------------------

\* petals added to the flower
MaxPetals == 3

Centers == { Vec7(Unit), Vec7(NeutralState) }

\* the petals a caller adds: uniform ones at chosen distances of the center,
\* the two threads, one that differs from a uniform one in component 6 only,
\* and one outside [0,1]
Timelines ==
    { Vec7(0), Vec7(300), Vec7(600), Vec7(900), Vec7(980), Vec7(Unit),
      git_thread, merc_thread,
      [i \in Idx7 |-> IF i = 7 THEN 0 ELSE Unit],
      Vec7(-200) }

\* flower.add_petal(&timeline)
AddPetal(timeline) ==
    /\ Len(flower.petals) < MaxPetals
    /\ flower' = add_petal(flower, timeline)
    /\ UNCHANGED <<engines, call, synth, cycles, returned, given, locals, loomcall, played>>

InitFlower ==
    /\ \E center \in Centers : flower = seed(center)
    /\ IdleEngines
    /\ IdleSynth
    /\ IdleMusician

NextFlower == \E timeline \in Timelines : AddPetal(timeline)

SpecFlower == InitFlower /\ [][NextFlower]_vars

\* ------------------------------------------------------------------------
\* Properties of FlowerOfLife
\* ------------------------------------------------------------------------

\* C4: in every state of a flower, freshly seeded or after add_petal calls,
\* bloom_state is the stage of the current kohanist_level.
C4_StageFollowsLevel ==
    flower.bloom_state = bloom_state_match(flower.kohanist_level)

\* C4 happens: the stage went up and came down again with the level, so the
\* stage of the current level differs from the stage of the level before.
C4_Witness ==
    /\ Len(flower.petals) >= 2
    /\ flower.bloom_state = "Sprouting"
    /\ bloom_state_match(
          harmony_level(SubSeq(flower.petals, 1, Len(flower.petals) - 1),
                        flower.center)) = "FullBloom"

SynthIds == {1, 2}

\* synthesize_cycle calls made on each GrandSynthesis
MaxCycles == 4

\* the centers given to from_now, all in [0,1]
Presents ==
    { Vec7(NeutralState), Vec7(191), Vec7(250), Vec7(0), Vec7(Unit),
      git_thread, <<200, 400, 600, 800, Unit, 0, 500>> }

\* variant of CycleStep: one flower shared by every GrandSynthesis
CycleStepSharedFlower(s) ==
    LET r == synthesize_cycle(synth[s])
    IN  /\ synth' = [t \in SynthIds |->
                        IF t = s THEN r.self
                        ELSE [synth[t] EXCEPT !.flower = r.self.flower]]
        /\ cycles' = [cycles EXCEPT ![s] = cycles[s] + 1]
        /\ returned' = [returned EXCEPT ![s] = r.ret]
        /\ locals' = [locals EXCEPT ![s] = r.locals]
        /\ UNCHANGED <<engines, call, flower, given, played>>

\* the effect of synth.synthesize_cycle() on GrandSynthesis s
CycleStep(s) ==
    LET r == synthesize_cycle(synth[s])
    IN  /\ synth' = [synth EXCEPT ![s] = r.self]
        /\ cycles' = [cycles EXCEPT ![s] = cycles[s] + 1]
        /\ returned' = [returned EXCEPT ![s] = r.ret]
        /\ locals' = [locals EXCEPT ![s] = r.locals]
        /\ UNCHANGED <<engines, call, flower, given, played>>

\* synth.synthesize_cycle()
SynthesizeCycle(s) ==
    /\ cycles[s] < MaxCycles
    /\ CycleStep(s)
    /\ UNCHANGED loomcall

\* GrandSynthesis::from_now(&presents[s]) for every s
Constructed(presents) ==
    /\ synth = [s \in SynthIds |-> from_now(presents[s])]
    /\ given = presents
    /\ cycles = [s \in SynthIds |-> 0]
    /\ returned = [s \in SynthIds |-> << >>]
    /\ locals = [s \in SynthIds |-> << >>]
    /\ loomcall = NoLoomCall

InitSynth ==
    /\ \E presents \in [SynthIds -> Presents] : Constructed(presents)
    /\ IdleEngines
    /\ IdleFlower
    /\ IdleMusician

NextSynth == \E s \in SynthIds : SynthesizeCycle(s)

SpecSynth == InitSynth /\ [][NextSynth]_vars

\* ------------------------------------------------------------------------
\* Properties of GrandSynthesis
\* ------------------------------------------------------------------------

C7_OnePetalPerCycle ==
    \A s \in SynthIds : Len(synth[s].flower.petals) = cycles[s]

\* C7 happens: three cycles were made, none of which committed, and there
\* are three petals.
C7_Witness ==
    \E s \in SynthIds :
        /\ cycles[s] = 3
        /\ Len(synth[s].flower.petals) = 3
        /\ synth[s].intent_engine.universe_state = Vec7(NeutralState)

\* C8: every step leaves the petals it found as a prefix of the petals it
\* leaves: none is removed, moved or changed.
C8_PetalsAppendOnly ==
    [][IsPrefix(flower.petals, flower'.petals)]_vars

\* C8 happens: a flower with three petals, not all equal, in the order they
\* were added (the path to this state is checked by C8 step by step).
C8_Witness ==
    /\ Len(flower.petals) = 3
    /\ flower.petals[1] # flower.petals[2]
    /\ flower.petals[2] # flower.petals[3]

\* C9: after any number of cycles on a GrandSynthesis whose center is in
\* [0,1], 0 <= kohanist_level <= 1.
C9_HarmonyInUnitInterval ==
    \A s \in SynthIds :
        /\ 0 <= synth[s].flower.kohanist_level
        /\ synth[s].flower.kohanist_level <= Unit

\* C9 happens: a GrandSynthesis with a center at the edge of [0,1] has
\* made several cycles and its harmony is strictly inside (0,1).
C9_Witness ==
    \E s \in SynthIds :
        /\ cycles[s] >= 3
        /\ synth[s].flower.center \in {Vec7(0), Vec7(Unit)}
        /\ 0 < synth[s].flower.kohanist_level
        /\ synth[s].flower.kohanist_level < Unit

\* the harmony of a history without its last petal; 0.0 for a history of one
HarmonyBeforeLast(petals, center) ==
    IF Len(petals) <= 1 THEN 0
    ELSE harmony_level(SubSeq(petals, 1, Len(petals) - 1), center)

\* C11: the desire of the intent built in a cycle is the kohanist_level the
\* flower had when the cycle began: 0 on the first cycle, the level left by
\* the cycle before afterwards.
C11_DesireIsHarmonyBefore ==
    [][\A s \in SynthIds :
          cycles'[s] = cycles[s] + 1
          => /\ locals'[s].intent.desire = synth[s].flower.kohanist_level
             /\ cycles[s] = 0 => locals'[s].intent.desire = 0]_vars

\* C11 happens: after two cycles or more, the desire of the last intent is
\* the harmony of the history without the last petal, and it is not the
\* harmony the last petal produced.
C11_Witness ==
    \E s \in SynthIds :
        /\ cycles[s] >= 2
        /\ locals[s].intent.desire =
              HarmonyBeforeLast(synth[s].flower.petals, synth[s].flower.center)
        /\ locals[s].intent.desire # synth[s].flower.kohanist_level

\* C12: after every cycle the last petal is the vector the cycle returned,
\* which is the vector inspire returned in that cycle.
C12_ReturnedIsLastPetal ==
    \A s \in SynthIds :
        cycles[s] > 0
        => /\ synth[s].flower.petals[Len(synth[s].flower.petals)] = returned[s]
           /\ returned[s] = locals[s].manifested

\* C12 happens: two cycles returned different vectors, and the second one
\* is the last petal.
C12_Witness ==
    \E s \in SynthIds :
        /\ cycles[s] = 2
        /\ synth[s].flower.petals[2] = returned[s]
        /\ synth[s].flower.petals[1] # returned[s]

\* C13: a GrandSynthesis on which no cycle was made has no petals, phase 0,
\* radius 1, universe_state [0.5; 7], receptivity 0.618, threshold 0.8, and
\* the centers of its loom and of its flower are the present it was given.
C13_FreshSynthesis ==
    \A s \in SynthIds :
        cycles[s] = 0
        => /\ synth[s].flower.petals = << >>
           /\ synth[s].loom.orbital_phase = 0
           /\ synth[s].loom.orbital_radius = 1000
           /\ synth[s].intent_engine.universe_state = Vec7(500)
           /\ synth[s].intent_engine.receptivity = 618
           /\ synth[s].intent_engine.manifestation_threshold = 800
           /\ synth[s].loom.present_gravity = given[s]
           /\ synth[s].flower.center = given[s]

\* C13 happens: a fresh GrandSynthesis built on a center that is not the
\* neutral vector.
C13_Witness ==
    \E s \in SynthIds :
        /\ cycles[s] = 0
        /\ given[s] = git_thread
        /\ synth[s].flower.center = git_thread
        /\ synth[s].loom.present_gravity = git_thread

\* n cycles on a GrandSynthesis built on present, with nothing else running
RECURSIVE RunAlone(_, _)
RunAlone(present, n) ==
    IF n = 0 THEN [self |-> from_now(present), ret |-> << >>, locals |-> << >>]
    ELSE synthesize_cycle(RunAlone(present, n - 1).self)

\* C15: in every interleaving of the cycles of two GrandSynthesis objects,
\* each object and its last output are what its own cycles alone produce.
C15_InstancesIndependent ==
    \A s \in SynthIds :
        /\ synth[s] = RunAlone(given[s], cycles[s]).self
        /\ returned[s] = RunAlone(given[s], cycles[s]).ret

\* C15 happens: two objects on different centers have both made two cycles
\* or more (in every order of their cycles).
C15_Witness ==
    /\ cycles[1] >= 2
    /\ cycles[2] >= 2
    /\ given[1] # given[2]
    /\ synth[1].flower.petals # synth[2].flower.petals

\* ------------------------------------------------------------------------
\* Scenario 5: one GrandSynthesis stepped many times (SpecLong)
\* ------------------------------------------------------------------------

\* synthesize_cycle calls made in scenario 5
LongCycles == 64

\* synth.synthesize_cycle() on GrandSynthesis 1
LongCycle ==
    /\ cycles[1] < LongCycles
    /\ CycleStep(1)
    /\ UNCHANGED loomcall

InitLong ==
    /\ \E p \in Presents :
          Constructed([s \in SynthIds |-> IF s = 1 THEN p ELSE Vec7(NeutralState)])
    /\ IdleEngines
    /\ IdleFlower
    /\ IdleMusician

NextLong == LongCycle

SpecLong == InitLong /\ [][NextLong]_vars

\* C14: with center [0.5; 7], after exactly 50 cycles the stage is past Seed
\* and the harmony exceeds 0.3.
C14_PastSeedAfterFifty ==
    (cycles[1] = 50 /\ given[1] = Vec7(500))
    => /\ synth[1].flower.bloom_state # "Seed"
       /\ synth[1].flower.kohanist_level > 300

\* C14 happens: 50 cycles were made on center [0.5; 7]; the flower has 50
\* petals and is in one of the stages above Seed.
C14_Witness ==
    /\ cycles[1] = 50
    /\ given[1] = Vec7(500)
    /\ Len(synth[1].flower.petals) = 50
    /\ synth[1].flower.bloom_state \in {"Sprouting", "Budding", "Blooming", "FullBloom"}

\* C19: every weave leaves the phase at (phase + 0.1) mod 2*3.14159, and the
\* phase stays in [0, 2*pi).
C19_PhaseAdvancesAndWraps ==
    [][\A s \in SynthIds :
          Len(synth'[s].loom.weave_pattern) = Len(synth[s].loom.weave_pattern) + 1
          => /\ synth'[s].loom.orbital_phase
                  = (synth[s].loom.orbital_phase + 100) % 6283
             /\ 0 <= synth'[s].loom.orbital_phase
             /\ synth'[s].loom.orbital_phase < 6283]_vars

\* C19 happens: the 63rd weave took the phase from 6.2 over 2*pi to 0.017.
C19_Witness ==
    /\ Len(synth[1].loom.weave_pattern) = 63
    /\ synth[1].loom.orbital_phase = 17

\* ------------------------------------------------------------------------
\* Scenario 6: the loom of one GrandSynthesis driven through its public
\* field, between whole cycles (SpecOrbit)
\* ------------------------------------------------------------------------

\* calls made on the loom or on the synthesis in scenario 6
MaxLoomCalls == 3

\* the centers of scenario 6
OrbitPresents == {Vec7(NeutralState), git_thread}

\* the delta arguments of approach_present and retreat_from_present, of both
\* signs: -21.0, -1.0, 0.3, 0.6, 12.0
Deltas == {-21000, -1000, 300, 600, 12000}

\* the <<forward, backward>> arguments of weave
ThreadPairs ==
    {<<git_thread, merc_thread>>, <<merc_thread, git_thread>>,
     <<Vec7(Unit), Vec7(0)>>}

\* 1.0 / orbital_radius is finite. At radius 0.0 the quotient is infinite and
\* the woven vector is not a number; the fixed-point numbers have no such
\* values, so weave is not followed from a loom at radius 0.0.
FiniteGravity(loom) == loom.orbital_radius # 0

\* the record of a call: its name, its number, the loom before it and the
\* vector it returned
LoomCall(op, ret) ==
    [op |-> op, n |-> loomcall.n + 1, before |-> synth[1].loom, ret |-> ret]

\* synth.loom.approach_present(delta)
ApproachPresent(delta) ==
    /\ loomcall.n < MaxLoomCalls
    /\ synth' = [synth EXCEPT ![1].loom = approach_present(synth[1].loom, delta)]
    /\ loomcall' = LoomCall("approach_present", << >>)
    /\ UNCHANGED <<engines, call, flower, cycles, returned, given, locals, played>>

\* synth.loom.retreat_from_present(delta)
RetreatFromPresent(delta) ==
    /\ loomcall.n < MaxLoomCalls
    /\ synth' = [synth EXCEPT ![1].loom = retreat_from_present(synth[1].loom, delta)]
    /\ loomcall' = LoomCall("retreat_from_present", << >>)
    /\ UNCHANGED <<engines, call, flower, cycles, returned, given, locals, played>>

\* synth.loom.weave(forward, backward)
Weave(forward, backward) ==
    /\ loomcall.n < MaxLoomCalls
    /\ FiniteGravity(synth[1].loom)
    /\ LET w == weave(synth[1].loom, forward, backward)
       IN  /\ synth' = [synth EXCEPT ![1].loom = w.self]
           /\ loomcall' = LoomCall("weave", w.ret)
    /\ UNCHANGED <<engines, call, flower, cycles, returned, given, locals, played>>

\* synth.synthesize_cycle()
OrbitCycle ==
    /\ loomcall.n < MaxLoomCalls
    /\ FiniteGravity(synth[1].loom)
    /\ CycleStep(1)
    /\ loomcall' = LoomCall("synthesize_cycle", returned'[1])

InitOrbit ==
    /\ \E p \in OrbitPresents :
          Constructed([s \in SynthIds |-> IF s = 1 THEN p ELSE Vec7(NeutralState)])
    /\ IdleEngines
    /\ IdleFlower
    /\ IdleMusician

NextOrbit ==
    \/ \E delta \in Deltas : ApproachPresent(delta)
    \/ \E delta \in Deltas : RetreatFromPresent(delta)
    \/ \E pair \in ThreadPairs : Weave(pair[1], pair[2])
    \/ OrbitCycle

SpecOrbit == InitOrbit /\ [][NextOrbit]_vars

\* C16: after any approach_present, retreat_from_present and weave calls
\* the orbital radius is at least the floor 0.1.
C16_RadiusAtLeastFloor ==
    synth[1].loom.orbital_radius >= 100

\* C17: after any approach_present and retreat_from_present calls the
\* orbital radius is at most the ceiling 10.0.
C17_RadiusAtMostCeiling ==
    synth[1].loom.orbital_radius <= 10000

\* C18: a weave call and a whole cycle leave the orbital radius and the
\* gravity center as they were; only approach_present and
\* retreat_from_present change the radius.
C18_RadiusFrame ==
    [][/\ loomcall'.op \in {"weave", "synthesize_cycle"}
          => /\ synth'[1].loom.orbital_radius = synth[1].loom.orbital_radius
             /\ synth'[1].loom.present_gravity = synth[1].loom.present_gravity
       /\ synth'[1].loom.orbital_radius # synth[1].loom.orbital_radius
          => loomcall'.op \in {"approach_present", "retreat_from_present"}
       /\ synth'[1].loom.present_gravity = given[1]]_vars

\* C18 happens: a weave call or a cycle was made on a loom whose radius had
\* been moved away from 1.0, and the radius is still where it was.
C18_Witness ==
    /\ loomcall.op \in {"weave", "synthesize_cycle"}
    /\ loomcall.before.orbital_radius # 1000
    /\ synth[1].loom.orbital_radius = loomcall.before.orbital_radius
    /\ synth[1].loom.weave_pattern # loomcall.before.weave_pattern

\* C20: each weave call, made directly or inside a cycle, appends the vector
\* it returns to weave_pattern and leaves the earlier elements.
C20_WeaveAppendsReturned ==
    [][/\ loomcall'.op = "weave"
          => synth'[1].loom.weave_pattern
                = Append(synth[1].loom.weave_pattern, loomcall'.ret)
       /\ loomcall'.op = "synthesize_cycle"
          => synth'[1].loom.weave_pattern
                = Append(synth[1].loom.weave_pattern, locals'[1].woven)]_vars

\* C20 happens: the second weave call on a loom, at another radius than the
\* first, left a pattern of two vectors: the one woven before and then the
\* one returned by the call, which differ.
C20_Witness ==
    /\ loomcall.op = "weave"
    /\ Len(synth[1].loom.weave_pattern) = 2
    /\ synth[1].loom.weave_pattern[2] = loomcall.ret
    /\ synth[1].loom.weave_pattern[1] # loomcall.ret
    /\ SubSeq(synth[1].loom.weave_pattern, 1, 1) = loomcall.before.weave_pattern

\* ------------------------------------------------------------------------
\* Scenario 7: one PerfectMusician asked to interpret hints for readers,
\* and code_to_intent (SpecMusician)
\* ------------------------------------------------------------------------

\* calls made in scenario 7
MaxPlays == 1

\* the code_hint arguments: inside [0,1], above 1.0 and negative
Hints ==
    { <<0, 0, 0, 0, 0>>, <<500, 500, 500, 500, 500>>,
      <<200, 400, 600, 800, Unit>>, <<130, 270, 410, 590, 730>>,
      <<1500, 2500, 900, 100, 3000>>, <<-300, -300, -300, -300, -300>> }

\* the reader.soul values: inside [0,1], above 1.0 and negative
Souls == { Vec7(NeutralState), git_thread, Vec7(2 * Unit), Vec7(-400) }

\* the reader.understanding values
Understandings == { 0, 500, Unit, 1500, -500 }

\* the reader.intent values, around the threshold 0.5
ReaderIntents == { 0, 499, 500, 501, 618, Unit }

Readers ==
    { [soul |-> so, frequency |-> ReaderFrequency, understanding |-> u,
       intent |-> it] :
         so \in Souls, u \in Understandings, it \in ReaderIntents }

\* the programmer_desire arguments of code_to_intent
Desires == { 0, 618, Unit }

\* musician.interpret(&code_hint, &reader) on a musician made by
\* PerfectMusician::transcendent(7)
Interpret(code_hint, reader) ==
    /\ played.n < MaxPlays
    /\ played' = [op |-> "interpret", n |-> played.n + 1,
                  code_hint |-> code_hint, reader |-> reader,
                  base |-> base_interpretation(code_hint),
                  ret |-> interpret(transcendent(Octaves), code_hint, reader)]
    /\ UNCHANGED <<engines, call, flower, synth, cycles, returned, given,
                   locals, loomcall>>

\* code_to_intent(&code_phash, programmer_desire)
CodeToIntent(code_phash, programmer_desire) ==
    /\ played.n < MaxPlays
    /\ played' = [op |-> "code_to_intent", n |-> played.n + 1,
                  code_hint |-> code_phash,
                  base |-> code_to_intent(code_phash, programmer_desire).vector,
                  ret |-> code_to_intent(code_phash, programmer_desire)]
    /\ UNCHANGED <<engines, call, flower, synth, cycles, returned, given,
                   locals, loomcall>>

InitMusician ==
    /\ played = NoPlay
    /\ IdleEngines
    /\ IdleFlower
    /\ IdleSynth

NextMusician ==
    \/ \E code_hint \in Hints, reader \in Readers : Interpret(code_hint, reader)
    \/ \E code_phash \in Hints, d \in Desires : CodeToIntent(code_phash, d)

SpecMusician == InitMusician /\ [][NextMusician]_vars

\* component i of the last interpret call before the branch
PlayedUnderstood(i) ==
    understood(transcendent(Octaves), played.base, played.reader, i)

\* C21 as claimed: interpret wraps (golden ratio, modulo 1.0) when
\* reader.intent is greater than or equal to 0.5 and clamps to at most 1.0
\* otherwise.
C21_WrapAtOrAboveHalf ==
    played.op = "interpret"
    => played.ret =
          [i \in Idx7 |->
              IF played.reader.intent >= 500
              THEN FMod(Mul(PlayedUnderstood(i), 1618), 1000)
              ELSE Min(PlayedUnderstood(i), 1000)]

\* C21 amended: interpret wraps (golden ratio, modulo 1.0) when reader.intent
\* is strictly greater than 0.5 and clamps to at most 1.0 otherwise, so at
\* exactly 0.5 it clamps.
C21_WrapAboveHalf ==
    played.op = "interpret"
    => played.ret =
          [i \in Idx7 |->
              IF played.reader.intent > 500
              THEN FMod(Mul(PlayedUnderstood(i), 1618), 1000)
              ELSE Min(PlayedUnderstood(i), 1000)]

\* C21 happens: interpret was called with reader.intent exactly 0.5, it
\* returned the clamped values, and wrapping would have given other ones.
C21_Witness ==
    /\ played.op = "interpret"
    /\ played.reader.intent = 500
    /\ played.ret = [i \in Idx7 |-> Min(PlayedUnderstood(i), 1000)]
    /\ \E i \in Idx7 :
          played.ret[i] # FMod(Mul(PlayedUnderstood(i), 1618), 1000)

\* C22: in the wrap branch of interpret every component of the result lies
\* in [0, 1), for hints, souls and understanding values inside and outside
\* [0,1] and negative.
C22_WrapInUnitInterval ==
    (played.op = "interpret" /\ played.reader.intent > 500)
    => \A i \in Idx7 : 0 <= played.ret[i] /\ played.ret[i] < 1000

\* C25: the promoted 7-vector copies the five components of the hint, its
\* component 5 is their mean (to the rounding of one division), its
\* component 6 is one minus component 5, and the two sum to 1.
C25_PromotionOfHint ==
    played.op \in {"interpret", "code_to_intent"}
    => /\ \A i \in 1..5 : played.base[i] = played.code_hint[i]
       /\ Abs(5 * played.base[6] - SumSeq(played.code_hint)) <= 2
       /\ played.base[7] = 1000 - played.base[6]
       /\ played.base[6] + played.base[7] = 1000

\* C25 happens: a hint of five different components, whose mean is none of
\* them, was promoted inside interpret.
C25_Witness ==
    /\ played.op = "interpret"
    /\ played.code_hint = <<130, 270, 410, 590, 730>>
    /\ played.base[6] = 426
    /\ played.base[7] = 574

\* the sum over all petals and all seven components of 1 - |petal[i] - center[i]|
RECURSIVE TotalCloseness(_, _)
TotalCloseness(petals, center) ==
    IF Len(petals) = 0 THEN 0
    ELSE (7 * 1000 - Abs(petals[1][1] - center[1]) - Abs(petals[1][2] - center[2])
                   - Abs(petals[1][3] - center[3]) - Abs(petals[1][4] - center[4])
                   - Abs(petals[1][5] - center[5]) - Abs(petals[1][6] - center[6])
                   - Abs(petals[1][7] - center[7]))
         + TotalCloseness(Tail(petals), center)

\* the petals in the opposite order
RECURSIVE Reversed(_)
Reversed(petals) ==
    IF Len(petals) = 0 THEN << >>
    ELSE Append(Reversed(Tail(petals)), petals[1])

\* the flower that was given the same petals in the opposite order
ReversedFlower ==
    [flower EXCEPT !.petals = Reversed(flower.petals)]

\* the flower whose last petal has component 6 moved by 0.5
Component6Moved ==
    LET n == Len(flower.petals)
        last == flower.petals[n]
    IN  [flower EXCEPT !.petals[n] = [last EXCEPT ![7] = last[7] + 500]]

\* C23: after every add_petal the level is the mean over all petals of the
\* mean over the seven components of 1 - |petal[i] - center[i]| (to the
\* rounding of the two divisions: 7 * len * level is within 7 * len of the
\* plain sum); the same petals in the opposite order give the same level;
\* moving component 6 of a petal away from the center lowers the level.
C23_HarmonyIsMeanOfAll ==
    LET n == Len(flower.petals)
    IN  n > 0
        => /\ Abs(7 * n * flower.kohanist_level
                    - TotalCloseness(flower.petals, flower.center)) <= 7 * n
           /\ update_kohanist(ReversedFlower).kohanist_level
                 = flower.kohanist_level
           /\ flower.petals[n][7] >= flower.center[7]
              => update_kohanist(Component6Moved).kohanist_level
                    < flower.kohanist_level

\* C23 happens: three different petals were added, the last one differing
\* from the center in component 6 only, and the level is below 1.
C23_Witness ==
    /\ Len(flower.petals) = 3
    /\ flower.center = Vec7(1000)
    /\ flower.petals[1] # flower.petals[2]
    /\ flower.petals[3] = [i \in Idx7 |-> IF i = 7 THEN 0 ELSE 1000]
    /\ flower.kohanist_level < 1000

\* the stages in their order
StageRank(stage) ==
    CASE stage = "Seed" -> 0
      [] stage = "Sprouting" -> 1
      [] stage = "Budding" -> 2
      [] stage = "Blooming" -> 3
      [] stage = "FullBloom" -> 4

\* C24: the stage has no memory: an add_petal moves the stage down exactly
\* when the recomputed level is below a threshold (0.3, 0.6, 0.9, 0.98) that
\* the level before was not below, FullBloom included.
C24_StageDropsWithLevel ==
    [][Len(flower'.petals) = Len(flower.petals) + 1
       => (StageRank(flower'.bloom_state) < StageRank(flower.bloom_state)
           <=> \E t \in {300, 600, 900, 980} :
                  /\ flower'.kohanist_level < t
                  /\ flower.kohanist_level >= t)]_vars

\* C24 happens: the flower was in FullBloom after its first petal, a lower
\* stage after its second and a higher one again after its third.
C24_Witness ==
    /\ Len(flower.petals) = 3
    /\ bloom_state_match(
          harmony_level(SubSeq(flower.petals, 1, 1), flower.center)) = "FullBloom"
    /\ StageRank(bloom_state_match(
          harmony_level(SubSeq(flower.petals, 1, 2), flower.center)))
          < StageRank(flower.bloom_state)
    /\ flower.bloom_state # "FullBloom"

\* ------------------------------------------------------------------------
\* Properties of the pipeline over many cycles (SpecLong) and of the loom
\* counters (SpecOrbit)
\* ------------------------------------------------------------------------

\* C26: no cycle commits: after any number of cycles universe_state is
\* [0.5; 7], and the intent of every cycle has clarity 0.5, resonance 0.618
\* and a power desire * 0.5 * 0.618 * 0.618 that is not above 0.8.
C26_NoCycleCommits ==
    /\ synth[1].intent_engine.universe_state = Vec7(500)
    /\ cycles[1] > 0
       => /\ locals[1].intent.clarity = 500
          /\ locals[1].intent.resonance = 618
          /\ Mul(Mul(Mul(locals[1].intent.desire, 500), 618), 618) <= 800

\* C26 happens: a cycle whose intent had a desire above 0.8, and returned a
\* vector other than [0.5; 7], left universe_state at [0.5; 7].
C26_Witness ==
    /\ cycles[1] >= 2
    /\ locals[1].intent.desire > 800
    /\ returned[1] # Vec7(500)
    /\ synth[1].intent_engine.universe_state = Vec7(500)

\* C27: in every cycle the woven vector is the gravity center, and the
\* orbital radius is 1.0 in every state.
C27_WovenIsCenter ==
    /\ synth[1].loom.orbital_radius = 1000
    /\ cycles[1] > 0 => locals[1].woven = given[1]
    /\ \A k \in 1..Len(synth[1].loom.weave_pattern) :
          synth[1].loom.weave_pattern[k] = given[1]

\* C27 happens: twenty cycles or more on a center that is neither thread,
\* at a phase past a quarter turn, and the last woven vector is the center.
C27_Witness ==
    /\ cycles[1] >= 20
    /\ given[1] = <<200, 400, 600, 800, 1000, 0, 500>>
    /\ synth[1].loom.orbital_phase > 1571
    /\ locals[1].woven = <<200, 400, 600, 800, 1000, 0, 500>>

\* C28: on center [0.5; 7] has_transcended() is false and the stage is not
\* FullBloom after every cycle.
C28_NeverTranscendsOnNeutral ==
    given[1] = Vec7(500)
    => /\ ~has_transcended(synth[1])
       /\ synth[1].flower.bloom_state # "FullBloom"
       /\ synth[1].flower.kohanist_level < 980

\* C28 happens: sixty cycles were made on center [0.5; 7] and the flower is
\* in the stage Blooming, below FullBloom.
C28_Witness ==
    /\ given[1] = Vec7(500)
    /\ cycles[1] = 60
    /\ synth[1].flower.bloom_state \in {"Budding", "Blooming"}
    /\ ~has_transcended(synth[1])

\* C29: weave_pattern, petals and notes have the length of the number of
\* cycles made; note k has layer k mod 4 and the amplitude of the harmony
\* after cycle k.
C29_HistoriesInStep ==
    /\ Len(synth[1].loom.weave_pattern) = cycles[1]
    /\ Len(synth[1].flower.petals) = cycles[1]
    /\ Len(synth[1].spiral_score.notes) = cycles[1]
    /\ \A k \in 1..Len(synth[1].spiral_score.notes) :
          synth[1].spiral_score.notes[k].time.layer = k % 4
    /\ \A k \in 1..Len(synth[1].spiral_score.notes) :
          synth[1].spiral_score.notes[k].amplitude
             = harmony_level(SubSeq(synth[1].flower.petals, 1, k),
                             synth[1].flower.center)
    /\ cycles[1] > 0
       => synth[1].spiral_score.notes[cycles[1]].amplitude
             = synth[1].flower.kohanist_level

\* C29 happens: after six cycles the three histories have six elements and
\* the last note has layer 2 and an amplitude other than that of the note
\* before.
C29_Witness ==
    /\ cycles[1] = 6
    /\ Len(synth[1].loom.weave_pattern) = 6
    /\ Len(synth[1].spiral_score.notes) = 6
    /\ synth[1].spiral_score.notes[6].time.layer = 2
    /\ synth[1].spiral_score.notes[6].amplitude
          # synth[1].spiral_score.notes[5].amplitude

\* C30: approach_present adds one to git.commits exactly when the radius
\* after its update is below 0.5 and leaves mercurial.revisions;
\* retreat_from_present adds one to mercurial.revisions exactly when the
\* radius after its update is above 2.0 and leaves git.commits; weave and a
\* whole cycle leave both.
C30_CountersFollowRadius ==
    [][/\ loomcall'.op = "approach_present"
          => /\ synth'[1].loom.git.commits
                  = synth[1].loom.git.commits
                      + (IF synth'[1].loom.orbital_radius < 500 THEN 1 ELSE 0)
             /\ synth'[1].loom.mercurial.revisions
                  = synth[1].loom.mercurial.revisions
       /\ loomcall'.op = "retreat_from_present"
          => /\ synth'[1].loom.mercurial.revisions
                  = synth[1].loom.mercurial.revisions
                      + (IF synth'[1].loom.orbital_radius > 2000 THEN 1 ELSE 0)
             /\ synth'[1].loom.git.commits = synth[1].loom.git.commits
       /\ loomcall'.op \in {"weave", "synthesize_cycle"}
          => /\ synth'[1].loom.git.commits = synth[1].loom.git.commits
             /\ synth'[1].loom.mercurial.revisions
                  = synth[1].loom.mercurial.revisions]_vars

\* C30 happens: an approach_present that ended below 0.5 counted a commit
\* and left the revision that a retreat_from_present had counted before.
C30_Witness ==
    /\ loomcall.op = "approach_present"
    /\ synth[1].loom.orbital_radius < 500
    /\ synth[1].loom.git.commits = loomcall.before.git.commits + 1
    /\ loomcall.before.mercurial.revisions = 1
    /\ synth[1].loom.mercurial.revisions = 1

====
